---- MODULE Spec2Model ----
(***************************************************************************)
(* Model of hoden_data_analyst/ohm_law_analyzer_jp.py:                     *)
(*   parse_value_from_filename  - regex extraction of a number from a name *)
(*   analyze_experiment_data    - the batch loop, aggregation and plot     *)
(* Strings are sequences of one-character strings, so that the regular     *)
(* expressions of the source are computed character by character.          *)
(***************************************************************************)
EXTENDS Integers, Sequences, FiniteSets, TLC

VARIABLES
    \* ---- analyze_experiment_data ----
    TARGET_PRESSURE,      \* line 41: None or Some(pressure)
    csv_files,            \* line 57: the globbed files, in discovery order
    disk,                 \* what read_csv finds for each discovered file
    idx,                  \* position of the for loop of line 72 (1-based)
    pc,                   \* position inside analyze_experiment_data
    pressure,             \* line 74
    resistance_ch2,       \* line 83
    df,                   \* lines 94-109: the cleaned table of the current file
    all_processed_data,   \* line 69
    final_df,             \* line 141
    groups_left,          \* the groups of line 147 not yet iterated
    processed_files,      \* per-file outputs written by line 121: path -> rows
    summary_files,        \* summary files written by line 152: pressure -> rows
    plot_files,           \* plot files written by line 189
    console,              \* the printed diagnostics, in order
    events,               \* the order of file handling and of file writes
    \* ---- parse_value_from_filename called on its own ----
    p_filename, p_pattern, p_unit_map, p_result, p_pc,
    \* ---- the cleaning steps (lines 94-109) applied to a table on their own ----
    c_raw, c_clean, c_pc

vars == << TARGET_PRESSURE, csv_files, disk, idx, pc, pressure, resistance_ch2,
           df, all_processed_data, final_df, groups_left, processed_files,
           summary_files, plot_files, console, events,
           p_filename, p_pattern, p_unit_map, p_result, p_pc,
           c_raw, c_clean, c_pc >>

batchVars == << TARGET_PRESSURE, csv_files, disk, idx, pc, pressure,
                resistance_ch2, df, all_processed_data, final_df, groups_left,
                processed_files, summary_files, plot_files, console, events >>
parseVars == << p_filename, p_pattern, p_unit_map, p_result, p_pc >>
cleanVars == << c_raw, c_clean, c_pc >>

-----------------------------------------------------------------------------
(* Bounds of the model *)

\* longest discovered file list
MaxFiles == 2
\* most name segments concatenated into a file name given to the extractor
MaxSegs == 4
\* most rows of a raw table given to the cleaning steps
MaxRows == 2

-----------------------------------------------------------------------------
(* Python values *)

\* Python's None and a present value: an optional is a sequence of length <= 1
None == << >>
Some(v) == << v >>
IsNone(o) == o = << >>
Val(o) == o[1]

Digits == {"0", "1", "2", "3", "4", "5", "6", "7", "8", "9"}

DigitVal(c) ==
    CASE c = "0" -> 0 [] c = "1" -> 1 [] c = "2" -> 2 [] c = "3" -> 3
      [] c = "4" -> 4 [] c = "5" -> 5 [] c = "6" -> 6 [] c = "7" -> 7
      [] c = "8" -> 8 [] c = "9" -> 9

\* int(value_str) of line 18 on a string of decimal digits
RECURSIVE int(_)
int(s) ==
    IF s = << >> THEN 0
    ELSE 10 * int(SubSeq(s, 1, Len(s) - 1)) + DigitVal(s[Len(s)])

\* os.path.basename (line 12): what follows the last "/"
basename(path) ==
    LET slashes == { i \in 1..Len(path) : path[i] = "/" }
    IN  IF slashes = {} THEN path
        ELSE SubSeq(path, (CHOOSE i \in slashes : \A j \in slashes : j <= i) + 1, Len(path))

-----------------------------------------------------------------------------
(* The regular expressions of lines 74 and 83.  A pattern (\d+)LIT or       *)
(* (\d+)([CLASS])LIT is the record of its number of groups, the character   *)
(* class of its second group and its literal tail.                          *)

PressurePattern == [ngroups |-> 1, class |-> {}, literal |-> << "P", "a" >>]
ResistancePattern ==
    [ngroups |-> 2, class |-> {"k", "M"}, literal |-> << "o", "h", "m" >>]

PressureUnitMap == << >>
ResistanceUnitMap == ("k" :> 1000) @@ ("M" :> 1000000)

\* the end of the greedy digit run \d+ that starts at i (i - 1 when there is none)
RECURSIVE DigitRunEnd(_, _)
DigitRunEnd(s, i) ==
    IF i <= Len(s) /\ s[i] \in Digits THEN DigitRunEnd(s, i + 1) ELSE i - 1

LiteralAt(s, i, lit) ==
    /\ i + Len(lit) - 1 <= Len(s)
    /\ \A k \in 1..Len(lit) : s[i + k - 1] = lit[k]

\* the run of digits of s that a match starting at i may take for group 1:
\* any non-empty prefix of the digits at i (the regex engine backtracks)
MatchEnds(s, i, pat) ==
    { j \in i..DigitRunEnd(s, i) :
        IF pat.ngroups > 1
        THEN /\ j + 1 <= Len(s)
             /\ s[j + 1] \in pat.class
             /\ LiteralAt(s, j + 2, pat.literal)
        ELSE LiteralAt(s, j + 1, pat.literal) }

MatchStarts(s, pat) == { i \in 1..Len(s) : MatchEnds(s, i, pat) # {} }

Max(S) == CHOOSE x \in S : \A y \in S : y <= x
Min(S) == CHOOSE x \in S : \A y \in S : x <= y

\* re.search replaced by a search that returns the rightmost match
re_search_last(pat, s) ==
    IF MatchStarts(s, pat) = {} THEN None
    ELSE LET i == Max(MatchStarts(s, pat))
             j == Max(MatchEnds(s, i, pat))
         IN  Some([group1 |-> SubSeq(s, i, j),
                   ngroups |-> pat.ngroups,
                   group2 |-> IF pat.ngroups > 1 THEN s[j + 1] ELSE ""])

\* re.search (line 13): the leftmost match, its first group taken greedily.
\* The result is None or Some of the groups: group 1, and group 2 if any.
re_search(pat, s) ==
    IF MatchStarts(s, pat) = {} THEN None
    ELSE LET i == Min(MatchStarts(s, pat))
             j == Max(MatchEnds(s, i, pat))
         IN  Some([group1 |-> SubSeq(s, i, j),
                   ngroups |-> pat.ngroups,
                   group2 |-> IF pat.ngroups > 1 THEN s[j + 1] ELSE ""])

\* parse_value_from_filename (lines 8-25)
parse_value_from_filename(filename, pattern, unit_map) ==
    LET match == re_search(pattern, basename(filename))
    IN  IF IsNone(match) THEN None
        ELSE LET value == int(Val(match).group1)
             IN  IF /\ Val(match).ngroups > 1
                    /\ Val(match).group2 \in DOMAIN unit_map
                 THEN Some(value * unit_map[Val(match).group2])
                 ELSE Some(value)

-----------------------------------------------------------------------------
(* Cells and floating-point values.  A cell of the table that read_csv      *)
(* returns with dtype=str is a string or the missing value; a converted     *)
(* cell is a float: finite (an exact fraction n/d), +inf, -inf or NaN.      *)

NA == [na |-> TRUE, s |-> << >>]
Str(s) == [na |-> FALSE, s |-> s]

Fin(n, d) == [kind |-> "fin", n |-> n, d |-> d]
PosInf == [kind |-> "inf", n |-> 1, d |-> 0]
NegInf == [kind |-> "-inf", n |-> -1, d |-> 0]
NaN == [kind |-> "nan", n |-> 0, d |-> 0]

AllDigits(s) == \A k \in 1..Len(s) : s[k] \in Digits

RECURSIVE Pow10(_)
Pow10(k) == IF k = 0 THEN 1 ELSE 10 * Pow10(k - 1)

\* position of the first "." of s, Len(s) + 1 when there is none
RECURSIVE DotPos(_, _)
DotPos(s, i) == IF i > Len(s) \/ s[i] = "." THEN i ELSE DotPos(s, i + 1)

\* an unsigned decimal literal, digits with at most one ".", as a float;
\* NaN when the text is no such literal
UnsignedFloat(s) ==
    LET p == DotPos(s, 1)
        ip == SubSeq(s, 1, p - 1)
        fp == SubSeq(s, p + 1, Len(s))
    IN  IF AllDigits(ip) /\ AllDigits(fp) /\ Len(ip) + Len(fp) > 0
        THEN Fin(int(ip \o fp), Pow10(Len(fp)))
        ELSE NaN

InfWords == { << "i", "n", "f" >>, << "I", "n", "f" >>, << "I", "N", "F" >>,
              << "i", "n", "f", "i", "n", "i", "t", "y" >>,
              << "I", "n", "f", "i", "n", "i", "t", "y" >> }

Negate(x) ==
    CASE x.kind = "fin" -> Fin(0 - x.n, x.d)
      [] x.kind = "inf" -> NegInf
      [] x.kind = "-inf" -> PosInf
      [] OTHER -> NaN

\* the text of a float without its sign
Magnitude(s) == IF s \in InfWords THEN PosInf ELSE UnsignedFloat(s)

\* pd.to_numeric(column, errors='coerce') on one cell (lines 105-106): the
\* float the text denotes, the spellings of infinity included, and NaN for a
\* missing cell or a text that is no number
to_numeric(cell) ==
    IF cell.na \/ cell.s = << >> THEN NaN
    ELSE IF cell.s[1] = "-" THEN Negate(Magnitude(Tail(cell.s)))
    ELSE IF cell.s[1] = "+" THEN Magnitude(Tail(cell.s))
    ELSE Magnitude(cell.s)

\* Series.str.match(r'^\d{2}:\d{2}:\d{2}$', na=False) on one cell (line 101);
\* "$" also matches before a final newline
time_format_match(cell) ==
    /\ ~cell.na
    /\ \/ Len(cell.s) = 8
       \/ Len(cell.s) = 9 /\ cell.s[9] = "\n"
    /\ \A k \in {1, 2, 4, 5, 7, 8} : cell.s[k] \in Digits
    /\ cell.s[3] = ":"
    /\ cell.s[6] = ":"

\* line 101: keep the rows whose first field is timestamp-shaped
FilterTimestampRows(rows) == SelectSeq(rows, LAMBDA r : time_format_match(r.c0))

\* lines 105-106: convert the two voltage columns
ConvertVoltages(rows) ==
    [k \in 1..Len(rows) |->
        [c0 |-> rows[k].c0, v1 |-> to_numeric(rows[k].c1),
         v2 |-> to_numeric(rows[k].c5)]]

\* line 109: dropna(subset=[COL_V_CH1, COL_V_CH2])
DropNaN(rows) ==
    SelectSeq(rows, LAMBDA r : r.v1.kind # "nan" /\ r.v2.kind # "nan")

\* lines 101-109: the cleaned table of a raw table
CleanTable(rows) == DropNaN(ConvertVoltages(FilterTimestampRows(rows)))

-----------------------------------------------------------------------------
(* Current correction, lines 112-115 *)

\* line 113
resistance_ch1 == 10000000

\* float / integer as numpy computes it, a zero divisor included
Divide(x, r) ==
    CASE x.kind = "nan" -> NaN
      [] x.kind = "inf" -> PosInf
      [] x.kind = "-inf" -> NegInf
      [] x.kind = "fin" /\ r # 0 -> Fin(x.n, x.d * r)
      [] x.kind = "fin" /\ r = 0 /\ x.n > 0 -> PosInf
      [] x.kind = "fin" /\ r = 0 /\ x.n < 0 -> NegInf
      [] OTHER -> NaN

\* float - float; a finite difference is kept as the pair of its operands
Subtract(a, b) ==
    CASE a.kind = "nan" \/ b.kind = "nan" -> [kind |-> "nan", minuend |-> a, subtrahend |-> b]
      [] a.kind = "fin" /\ b.kind = "fin" -> [kind |-> "fin", minuend |-> a, subtrahend |-> b]
      [] a.kind = "fin" -> [kind |-> Negate(b).kind, minuend |-> a, subtrahend |-> b]
      [] b.kind = "fin" -> [kind |-> a.kind, minuend |-> a, subtrahend |-> b]
      [] a.kind = b.kind -> [kind |-> "nan", minuend |-> a, subtrahend |-> b]
      [] OTHER -> [kind |-> a.kind, minuend |-> a, subtrahend |-> b]

\* lines 112-115 on one cleaned row
final_current(row, resistance) ==
    LET current_ch2 == Divide(row.v2, resistance)
        current_ch1 == Divide(row.v1, resistance_ch1)
    IN  Subtract(current_ch2, current_ch1)


-----------------------------------------------------------------------------
(* parse_value_from_filename on its own: the file name is any concatenation *)
(* of at most MaxSegs of the segments below, the pattern and unit map are   *)
(* those of lines 74 and 83 and two smaller unit maps.                      *)

Segments == { << "0" >>, << "1" >>, << "k" >>, << "x" >>, << "/" >>,
              << "o", "h", "m" >>, << "k", "o", "h", "m" >>,
              << "M", "o", "h", "m" >>, << "P", "a" >> }

RECURSIVE Flatten(_)
Flatten(segs) == IF segs = << >> THEN << >> ELSE Head(segs) \o Flatten(Tail(segs))

FileNames == { Flatten(q) : q \in UNION { [1..n -> Segments] : n \in 0..MaxSegs } }

ParseCalls ==
    { [pattern |-> PressurePattern, unit_map |-> PressureUnitMap],
      [pattern |-> ResistancePattern, unit_map |-> ResistanceUnitMap],
      [pattern |-> ResistancePattern, unit_map |-> ("k" :> 1000)],
      [pattern |-> ResistancePattern, unit_map |-> << >>] }

BatchIdle ==
    /\ TARGET_PRESSURE = None
    /\ csv_files = << >>
    /\ disk = << >>
    /\ idx = 0
    /\ pc = "idle"
    /\ pressure = None
    /\ resistance_ch2 = None
    /\ df = << >>
    /\ all_processed_data = << >>
    /\ final_df = << >>
    /\ groups_left = << >>
    /\ processed_files = << >>
    /\ summary_files = << >>
    /\ plot_files = {}
    /\ console = << >>
    /\ events = << >>

ParseIdle ==
    /\ p_filename = << >>
    /\ p_pattern = PressurePattern
    /\ p_unit_map = << >>
    /\ p_result = None
    /\ p_pc = "idle"

CleanIdle ==
    /\ c_raw = << >>
    /\ c_clean = << >>
    /\ c_pc = "idle"

InitParse ==
    /\ p_filename \in FileNames
    /\ \E c \in ParseCalls : p_pattern = c.pattern /\ p_unit_map = c.unit_map
    /\ p_result = None
    /\ p_pc = "call"
    /\ BatchIdle
    /\ CleanIdle

\* one call of parse_value_from_filename (lines 8-25)
ParseCall ==
    /\ p_pc = "call"
    /\ p_result' = parse_value_from_filename(p_filename, p_pattern, p_unit_map)
    /\ p_pc' = "returned"
    /\ UNCHANGED << p_filename, p_pattern, p_unit_map, batchVars, cleanVars >>

NextParse == ParseCall

SpecParse == InitParse /\ [][NextParse]_vars

-----------------------------------------------------------------------------
(* The cleaning steps on their own: the raw table is any table of at most   *)
(* MaxRows rows whose cells are drawn from the cells below.                 *)

TimeCells ==
    { Str(<< "1", "2", ":", "3", "4", ":", "5", "6" >>),
      Str(<< "1", ":", "2", "3", ":", "4", "5" >>),
      Str(<< "E", "n", "d" >>),
      NA }

VoltageCells ==
    { Str(<< "1" >>), Str(<< "-", "2", ".", "5" >>), Str(<< "a", "b", "c" >>),
      Str(<< "i", "n", "f" >>), NA }

RawRows == [c0 : TimeCells, c1 : VoltageCells, c5 : VoltageCells]

InitClean ==
    /\ c_raw \in UNION { [1..n -> RawRows] : n \in 0..MaxRows }
    /\ c_clean = << >>
    /\ c_pc = "raw"
    /\ BatchIdle
    /\ ParseIdle

\* lines 101-109 applied to the table read at line 94
CleanStep ==
    /\ c_pc = "raw"
    /\ c_clean' = CleanTable(c_raw)
    /\ c_pc' = "cleaned"
    /\ UNCHANGED << c_raw, batchVars, parseVars >>

NextClean == CleanStep

SpecClean == InitClean /\ [][NextClean]_vars


-----------------------------------------------------------------------------
(* analyze_experiment_data: the files on disk *)

\* line 37
TARGET_FOLDER == << "2", "0", "2", "5", "0", "7", "2", "3", "_", "1" >>

HodenSuffix == << "_", "h", "o", "d", "e", "n", ".", "c", "s", "v" >>
ProcessedSuffix ==
    << "_", "p", "r", "o", "c", "e", "s", "s", "e", "d", ".", "c", "s", "v" >>

\* os.path.join(TARGET_FOLDER, <stem>_hoden.csv): a path the glob of line 57 finds
FilePath(stem) == TARGET_FOLDER \o << "/" >> \o stem \o HodenSuffix

\* str.replace(old, new): every occurrence, left to right
RECURSIVE Replace(_, _, _)
Replace(s, old, new) ==
    IF Len(s) < Len(old) THEN s
    ELSE IF SubSeq(s, 1, Len(old)) = old
         THEN new \o Replace(SubSeq(s, Len(old) + 1, Len(s)), old, new)
         ELSE << Head(s) >> \o Replace(Tail(s), old, new)

\* line 120
output_filepath(filepath) == Replace(filepath, HodenSuffix, ProcessedSuffix)

Stems ==
    { << "1", "0", "k", "o", "h", "m", "_", "3", "0", "0", "P", "a" >>,
      << "2", "M", "o", "h", "m", "_", "5", "0", "0", "P", "a" >>,
      << "0", "k", "o", "h", "m", "_", "3", "0", "0", "P", "a" >>,
      << "1", "0", "k", "o", "h", "m" >>,
      << "3", "0", "0", "P", "a" >> }

Paths == { FilePath(st) : st \in Stems }

\* the values of the TARGET_PRESSURE setting (line 41): 300 as shipped, or None
TargetPressures == { None, Some(300) }

FooterRow == [c0 |-> Str(<< "E", "n", "d" >>), c1 |-> NA, c5 |-> NA]
DataRow1 ==
    [c0 |-> Str(<< "1", "2", ":", "0", "0", ":", "0", "0" >>),
     c1 |-> Str(<< "1" >>), c5 |-> Str(<< "2" >>)]
DataRow2 ==
    [c0 |-> Str(<< "1", "2", ":", "0", "0", ":", "0", "1" >>),
     c1 |-> Str(<< "-", "2", ".", "5" >>), c5 |-> Str(<< "0" >>)]
DataRow3 ==
    [c0 |-> Str(<< "1", "2", ":", "0", "0", ":", "0", "3" >>),
     c1 |-> Str(<< "1" >>), c5 |-> Str(<< "2" >>)]
BadVoltageRow ==
    [c0 |-> Str(<< "1", "2", ":", "0", "0", ":", "0", "2" >>),
     c1 |-> Str(<< "a", "b", "c" >>), c5 |-> Str(<< "2" >>)]

\* what a discovered file may hold: a log with a footer (two of its rows carry
\* the same voltages), a log with an invalid voltage, a file of footer rows
\* only, a file with too few columns, and a file read_csv cannot read
Contents ==
    { [readable |-> TRUE, ncols |-> 6, rows |-> << DataRow1, DataRow3, FooterRow >>],
      [readable |-> TRUE, ncols |-> 6, rows |-> << BadVoltageRow, DataRow2 >>],
      [readable |-> TRUE, ncols |-> 6, rows |-> << FooterRow >>],
      [readable |-> TRUE, ncols |-> 2, rows |-> << DataRow1 >>],
      [readable |-> FALSE, ncols |-> 0, rows |-> << >>] }

COL_V_CH1 == 1
COL_V_CH2 == 5

-----------------------------------------------------------------------------
(* analyze_experiment_data: helpers *)

Say(msg, file) == [msg |-> msg, file |-> file]
Event(e, file, key) == [e |-> e, file |-> file, key |-> key]

Orderings(S) ==
    { q \in [1..Cardinality(S) -> S] : \A a, b \in 1..Cardinality(S) : q[a] = q[b] => a = b }

RECURSIVE SortedSeq(_)
SortedSeq(S) == IF S = {} THEN << >> ELSE << Min(S) >> \o SortedSeq(S \ {Min(S)})

\* the pressure filter left out: no file is skipped
FilteredOut_Never(target, p) == FALSE

\* line 77: the file is skipped by the pressure filter
FilteredOut(target, p) == target # None /\ p # target

\* read_csv and the column accesses of lines 94-106 raise
LoadRaises(content) ==
    \/ ~content.readable
    \/ content.ncols <= COL_V_CH1
    \/ content.ncols <= COL_V_CH2

\* lines 101-115: the cleaned table with its final_current series
CorrectedTable(rows, resistance) ==
    LET clean == CleanTable(rows)
    IN  [k \in 1..Len(clean) |->
            [c0 |-> clean[k].c0, v1 |-> clean[k].v1, v2 |-> clean[k].v2,
             final_current_A |-> final_current(clean[k], resistance)]]

\* lines 125-130
processed_df(table, resistance, p) ==
    [k \in 1..Len(table) |->
        [voltage_ch1_V |-> table[k].v1,
         final_current_A |-> table[k].final_current_A,
         resistance_ohm |-> resistance,
         pressure_Pa |-> p]]

\* line 141: pd.concat(all_processed_data, ignore_index=True)
concat(tables) == Flatten(tables)

\* line 145: the group keys of groupby('pressure_Pa'), in ascending order
GroupKeys(table) == SortedSeq({ table[k].pressure_Pa : k \in 1..Len(table) })

\* the summary of a group with its repeated rows written once
summary_df_dedup(table, key) ==
    LET group_df == SelectSeq(table, LAMBDA r : r.pressure_Pa = key)
        first == { k \in 1..Len(group_df) : \A j \in 1..(k - 1) : group_df[j] # group_df[k] }
        kept == SortedSeq(first)
    IN  [k \in 1..Len(kept) |->
            [voltage_ch1_V |-> group_df[kept[k]].voltage_ch1_V,
             final_current_A |-> group_df[kept[k]].final_current_A]]

\* lines 147, 151: the rows of one group, reduced to the two summary columns
summary_df(table, key) ==
    LET group_df == SelectSeq(table, LAMBDA r : r.pressure_Pa = key)
    IN  [k \in 1..Len(group_df) |->
            [voltage_ch1_V |-> group_df[k].voltage_ch1_V,
             final_current_A |-> group_df[k].final_current_A]]

\* lines 171-180: one series per resistance, in ascending order
PlotSeries(table) ==
    LET unique_resistances == SortedSeq({ table[k].resistance_ohm : k \in 1..Len(table) })
    IN  [i \in 1..Len(unique_resistances) |->
            [res |-> unique_resistances[i],
             subset |-> SelectSeq(table, LAMBDA r : r.resistance_ohm = unique_resistances[i])]]


-----------------------------------------------------------------------------
(* analyze_experiment_data: the run.  The initial states are the settings   *)
(* of TARGET_PRESSURE and the contents of an existing TARGET_FOLDER.        *)

Init ==
    /\ TARGET_PRESSURE \in TargetPressures
    /\ disk \in UNION { [D -> Contents] :
                          D \in { E \in SUBSET Paths : Cardinality(E) <= MaxFiles } }
    /\ csv_files = << >>
    /\ idx = 0
    /\ pc = "start"
    /\ pressure = None
    /\ resistance_ch2 = None
    /\ df = << >>
    /\ all_processed_data = << >>
    /\ final_df = << >>
    /\ groups_left = << >>
    /\ processed_files = << >>
    /\ summary_files = << >>
    /\ plot_files = {}
    /\ console = << >>
    /\ events = << >>
    /\ ParseIdle
    /\ CleanIdle

\* lines 44-69: glob the folder; the order of the result is the file system's
Discover ==
    /\ pc = "start"
    /\ IF DOMAIN disk = {}
       THEN /\ csv_files' = << >>
            /\ console' = Append(console, Say("no_files", << >>))
            /\ pc' = "done"
            /\ idx' = idx
       ELSE /\ csv_files' \in Orderings(DOMAIN disk)
            /\ console' = console \o << Say("found", << >>) >>
                            \o (IF TARGET_PRESSURE # None
                                THEN << Say("target", << >>) >> ELSE << >>)
            /\ pc' = "loop"
            /\ idx' = 1
    /\ all_processed_data' = << >>
    /\ UNCHANGED << TARGET_PRESSURE, disk, pressure, resistance_ch2, df, final_df,
                    groups_left, processed_files, summary_files, plot_files,
                    events, parseVars, cleanVars >>

\* lines 74-90 for the file at filepath, p and r being the two extractions
HandleFile(filepath, p, r) ==
    /\ pressure' = p
    /\ events' = Append(events, Event("handle", filepath, 0))
    /\ IF FilteredOut(TARGET_PRESSURE, p)
       THEN /\ idx' = idx + 1
            /\ pc' = "loop"
            /\ UNCHANGED << resistance_ch2, console >>
       ELSE /\ resistance_ch2' = r
            /\ IF r = None
               THEN /\ console' = console \o << Say("processing", filepath),
                                                Say("warn_resistance", filepath) >>
                    /\ idx' = idx + 1
                    /\ pc' = "loop"
               ELSE IF p = None
               THEN /\ console' = console \o << Say("processing", filepath),
                                                Say("warn_pressure", filepath) >>
                    /\ idx' = idx + 1
                    /\ pc' = "loop"
               ELSE /\ console' = Append(console, Say("processing", filepath))
                    /\ idx' = idx
                    /\ pc' = "read"

\* lines 72-90: take the next file, extract its metadata, filter and validate
NextFile ==
    /\ pc = "loop"
    /\ idx <= Len(csv_files)
    /\ HandleFile(csv_files[idx],
                  parse_value_from_filename(csv_files[idx], PressurePattern,
                                            PressureUnitMap),
                  parse_value_from_filename(csv_files[idx], ResistancePattern,
                                            ResistanceUnitMap))
    /\ UNCHANGED << TARGET_PRESSURE, csv_files, disk, df, all_processed_data, final_df,
                    groups_left, processed_files, summary_files, plot_files,
                    parseVars, cleanVars >>

\* the load step without its except clause: the exception ends the run
ReadAndClean_Uncaught ==
    /\ pc = "read"
    /\ IF LoadRaises(disk[csv_files[idx]])
       THEN /\ console' = console
            /\ idx' = idx
            /\ pc' = "done"
            /\ df' = df
       ELSE /\ df' = CorrectedTable(disk[csv_files[idx]].rows, Val(resistance_ch2))
            /\ console' = Append(console, Say("footer_filtered", csv_files[idx]))
            /\ idx' = idx
            /\ pc' = "write"
    /\ UNCHANGED << TARGET_PRESSURE, csv_files, disk, pressure, resistance_ch2,
                    all_processed_data, final_df, groups_left, processed_files,
                    summary_files, plot_files, events, parseVars, cleanVars >>

\* lines 92-115 and 133-134: load, clean and correct; an exception skips the file
ReadAndClean ==
    /\ pc = "read"
    /\ IF LoadRaises(disk[csv_files[idx]])
       THEN /\ console' = Append(console, Say("error", csv_files[idx]))
            /\ idx' = idx + 1
            /\ pc' = "loop"
            /\ df' = df
       ELSE /\ df' = CorrectedTable(disk[csv_files[idx]].rows, Val(resistance_ch2))
            /\ console' = Append(console, Say("footer_filtered", csv_files[idx]))
            /\ idx' = idx
            /\ pc' = "write"
    /\ UNCHANGED << TARGET_PRESSURE, csv_files, disk, pressure, resistance_ch2,
                    all_processed_data, final_df, groups_left, processed_files,
                    summary_files, plot_files, events, parseVars, cleanVars >>

\* lines 118-122 and 133-134: write the per-file CSV; the write may raise
WriteProcessed ==
    /\ pc = "write"
    /\ LET filepath == csv_files[idx]
       IN  \E io_ok \in BOOLEAN :
              IF io_ok
              THEN /\ processed_files' =
                        (output_filepath(filepath) :> df) @@ processed_files
                   /\ events' = Append(events, Event("write_processed", filepath, 0))
                   /\ console' = Append(console, Say("saved", filepath))
                   /\ idx' = idx
                   /\ pc' = "append"
              ELSE /\ console' = Append(console, Say("error", filepath))
                   /\ idx' = idx + 1
                   /\ pc' = "loop"
                   /\ UNCHANGED << processed_files, events >>
    /\ UNCHANGED << TARGET_PRESSURE, csv_files, disk, pressure, resistance_ch2, df,
                    all_processed_data, final_df, groups_left, summary_files,
                    plot_files, parseVars, cleanVars >>

\* lines 125-131: collect the table of the file
AppendData ==
    /\ pc = "append"
    /\ all_processed_data' =
          Append(all_processed_data,
                 processed_df(df, Val(resistance_ch2), Val(pressure)))
    /\ events' = Append(events, Event("append", csv_files[idx], 0))
    /\ idx' = idx + 1
    /\ pc' = "loop"
    /\ UNCHANGED << TARGET_PRESSURE, csv_files, disk, pressure, resistance_ch2, df,
                    final_df, groups_left, processed_files, summary_files,
                    plot_files, console, parseVars, cleanVars >>

\* the loop left one file early
CheckEmpty_Early ==
    /\ pc = "loop"
    /\ idx >= Len(csv_files)
    /\ IF all_processed_data = << >>
       THEN /\ console' = Append(console, Say("no_data", << >>))
            /\ pc' = "done"
       ELSE /\ console' = console
            /\ pc' = "concat"
    /\ UNCHANGED << TARGET_PRESSURE, csv_files, disk, idx, pressure, resistance_ch2,
                    df, all_processed_data, final_df, groups_left, processed_files,
                    summary_files, plot_files, events, parseVars, cleanVars >>

\* lines 136-138: after the loop, return when nothing was collected
CheckEmpty ==
    /\ pc = "loop"
    /\ idx > Len(csv_files)
    /\ IF all_processed_data = << >>
       THEN /\ console' = Append(console, Say("no_data", << >>))
            /\ pc' = "done"
       ELSE /\ console' = console
            /\ pc' = "concat"
    /\ UNCHANGED << TARGET_PRESSURE, csv_files, disk, idx, pressure, resistance_ch2,
                    df, all_processed_data, final_df, groups_left, processed_files,
                    summary_files, plot_files, events, parseVars, cleanVars >>

\* lines 141-145: concatenate and group by pressure
Concat ==
    /\ pc = "concat"
    /\ final_df' = concat(all_processed_data)
    /\ groups_left' = GroupKeys(concat(all_processed_data))
    /\ console' = Append(console, Say("aggregating", << >>))
    /\ events' = Append(events, Event("concat", << >>, 0))
    /\ pc' = "summary"
    /\ UNCHANGED << TARGET_PRESSURE, csv_files, disk, idx, pressure, resistance_ch2,
                    df, all_processed_data, processed_files, summary_files,
                    plot_files, parseVars, cleanVars >>

\* lines 147-153: write the summary file of the next group
WriteSummary ==
    /\ pc = "summary"
    /\ groups_left # << >>
    /\ LET pressure_val == Head(groups_left)
       IN  /\ summary_files' =
                 (pressure_val :> summary_df(final_df, pressure_val)) @@ summary_files
           /\ events' = Append(events, Event("write_summary", << >>, pressure_val))
    /\ console' = Append(console, Say("summary_saved", << >>))
    /\ groups_left' = Tail(groups_left)
    /\ UNCHANGED << TARGET_PRESSURE, csv_files, disk, idx, pc, pressure,
                    resistance_ch2, df, all_processed_data, final_df,
                    processed_files, plot_files, parseVars, cleanVars >>

\* lines 156-190: draw and save the plot
Plot ==
    /\ pc = "summary"
    /\ groups_left = << >>
    /\ plot_files' = plot_files \cup
                       { [name |-> TARGET_PRESSURE, series |-> PlotSeries(final_df)] }
    /\ events' = Append(events, Event("write_plot", << >>, 0))
    /\ console' = console \o << Say("plotting", << >>), Say("plot_saved", << >>) >>
    /\ pc' = "done"
    /\ UNCHANGED << TARGET_PRESSURE, csv_files, disk, idx, pressure, resistance_ch2,
                    df, all_processed_data, final_df, groups_left, processed_files,
                    summary_files, parseVars, cleanVars >>

Next ==
    \/ Discover
    \/ NextFile
    \/ ReadAndClean
    \/ WriteProcessed
    \/ AppendData
    \/ CheckEmpty
    \/ Concat
    \/ WriteSummary
    \/ Plot

Spec == Init /\ [][Next]_vars


-----------------------------------------------------------------------------
(* Properties of the filename extraction (checked under SpecParse) *)

KohmTag == << "k", "o", "h", "m" >>
MohmTag == << "M", "o", "h", "m" >>
PaTag == << "P", "a" >>

\* a whole number (a maximal run of digits) starts at position i of s and is
\* directly followed by the text tag
NumberTagAt(s, i, tag) ==
    /\ s[i] \in Digits
    /\ i = 1 \/ s[i - 1] \notin Digits
    /\ LiteralAt(s, DigitRunEnd(s, i) + 1, tag)

NumberAt(s, i) == int(SubSeq(s, i, DigitRunEnd(s, i)))

TagsOf(pat) == IF pat = ResistancePattern THEN {KohmTag, MohmTag} ELSE {PaTag}

\* the positions of s where <N><tag> stands, for the tags of the pattern
TagPositions(s, pat) ==
    { i \in 1..Len(s) : \E tag \in TagsOf(pat) : NumberTagAt(s, i, tag) }

\* what the leftmost <N><tag> of s is worth under the unit map
LeftmostValue(s, pat, unit_map) ==
    LET i == Min(TagPositions(s, pat))
        N == NumberAt(s, i)
        u == s[DigitRunEnd(s, i) + 1]
    IN  IF pat = ResistancePattern /\ u \in DOMAIN unit_map
        THEN IF u = "k" THEN N * 1000 ELSE N * 1000000
        ELSE N

\* C7 as stated: every file name (the base name of the path) containing
\* <N>kohm yields N*1000 and every file name containing <N>Mohm yields
\* N*1,000,000 under the resistance pattern and its unit map; a name without
\* a match yields None; a single group or a unit that is no key of the map
\* yields the bare N.
C7_Original ==
    p_pc = "returned" =>
        LET b == basename(p_filename)
        IN  /\ (p_pattern = ResistancePattern /\ p_unit_map = ResistanceUnitMap) =>
                  \A i \in 1..Len(b) :
                     /\ NumberTagAt(b, i, KohmTag)
                           => p_result = Some(NumberAt(b, i) * 1000)
                     /\ NumberTagAt(b, i, MohmTag)
                           => p_result = Some(NumberAt(b, i) * 1000000)
            /\ TagPositions(b, p_pattern) = {} => p_result = None
            /\ ( /\ p_pattern = PressurePattern \/ p_unit_map # ResistanceUnitMap
                 /\ TagPositions(b, p_pattern) # {}
                 /\ b[DigitRunEnd(b, Min(TagPositions(b, p_pattern))) + 1]
                        \notin DOMAIN p_unit_map )
                  => p_result = Some(NumberAt(b, Min(TagPositions(b, p_pattern))))

\* C7 (amended): the extraction is decided by the leftmost <N><tag> of the
\* base name of the path: <N>kohm yields N*1000 and <N>Mohm yields
\* N*1,000,000 when the unit is a key of the unit map, a single group or a
\* unit that is no key yields the bare N, and a base name without <N><tag>
\* yields None.
C7_Extraction ==
    p_pc = "returned" =>
        LET b == basename(p_filename)
        IN  IF TagPositions(b, p_pattern) = {}
            THEN p_result = None
            ELSE p_result = Some(LeftmostValue(b, p_pattern, p_unit_map))

\* C7 witness: a name with two resistance tags, <N>Mohm first and <N>kohm
\* second, has been parsed to 1,000,000
C7_Witness ==
    /\ p_pc = "returned"
    /\ p_pattern = ResistancePattern
    /\ p_unit_map = ResistanceUnitMap
    /\ Cardinality(TagPositions(basename(p_filename), p_pattern)) = 2
    /\ \E i \in 1..Len(p_filename) : NumberTagAt(p_filename, i, KohmTag)
    /\ p_result = Some(1000000)


-----------------------------------------------------------------------------
(* Properties of the batch run (checked under Spec) *)

\* the pressure and the resistance that lines 74 and 83 extract from each path
Extracted ==
    [f \in Paths |->
        [pressure |-> parse_value_from_filename(f, PressurePattern, PressureUnitMap),
         resistance |-> parse_value_from_filename(f, ResistancePattern,
                                                  ResistanceUnitMap)]]

PressureOf(f) == Extracted[f].pressure
ResistanceOf(f) == Extracted[f].resistance

Said(msg, f) == \E k \in 1..Len(console) : console[k] = Say(msg, f)
Happened(e, f) == \E k \in 1..Len(events) : events[k].e = e /\ events[k].file = f
Aggregated == \E k \in 1..Len(events) : events[k].e = "concat"

Discovered == { csv_files[k] : k \in 1..Len(csv_files) }
\* the files the loop has finished with
Finished == { csv_files[k] : k \in 1..(idx - 1) }
LoopOver == csv_files # << >> /\ pc \in {"concat", "summary", "done"}

\* the file passes the pressure filter and both extractions
Eligible(f) ==
    LET p == PressureOf(f)
    IN  /\ TARGET_PRESSURE = None \/ p = TARGET_PRESSURE
        /\ p # None
        /\ ResistanceOf(f) # None

\* the file cannot be loaded: unreadable, or without the two voltage columns
Unloadable(f) == ~disk[f].readable \/ disk[f].ncols < 6

Count(q, x) == Cardinality({ k \in 1..Len(q) : q[k] = x })

\* C1, the part on the single files: a file whose step raised is reported and
\* appends nothing, its per-file output is not written by a failed load, and
\* every other eligible file is loaded and either collected or reported.
C1_PerFile ==
    /\ \A f \in Discovered :
          /\ Said("error", f) => ~Happened("append", f)
          /\ (f \in Finished /\ Eligible(f)) =>
                IF Unloadable(f)
                THEN /\ Said("error", f)
                     /\ output_filepath(f) \notin DOMAIN processed_files
                ELSE /\ Said("footer_filtered", f)
                     /\ Said("error", f) \/ Happened("append", f)
    /\ Len(all_processed_data) = Cardinality({ f \in Discovered : Happened("append", f) })
    /\ LoopOver => Finished = Discovered

\* C1 as stated: failures are isolated per file, and the batch loop always
\* reaches the aggregation phase.
C1_Original ==
    /\ C1_PerFile
    /\ (pc = "done" /\ \E f \in Discovered : Said("error", f)) => Aggregated

\* C1 (amended): failures are isolated per file; no exception aborts the
\* batch loop, which ends only by reaching the check of the collection after
\* every discovered file was handled; the aggregation phase is entered only
\* after the loop, and exactly when at least one table was collected.
C1_FailureIsolation ==
    /\ C1_PerFile
    /\ (pc = "done" /\ csv_files # << >>) =>
          (Aggregated <=> all_processed_data # << >>)
    /\ Aggregated => LoopOver

\* C1 witness: the first file raised, the second was still collected and the
\* run reached the end with a summary written
C1_Witness ==
    /\ pc = "done"
    /\ Len(csv_files) = 2
    /\ Said("error", csv_files[1])
    /\ Happened("append", csv_files[2])
    /\ summary_files # << >>

\* the files whose corrected rows are due in the summaries: eligible, loaded
\* and written without an exception
Passed(f) == Eligible(f) /\ ~Unloadable(f) /\ Said("saved", f)

\* the corrected rows (voltage_ch1, final_current) of a file
CorrectedRows(f) ==
    LET t == CorrectedTable(disk[f].rows, Val(ResistanceOf(f)))
    IN  [k \in 1..Len(t) |->
            [voltage_ch1_V |-> t[k].v1, final_current_A |-> t[k].final_current_A]]

\* the passed files, each with its pressure and its corrected rows
DueTables ==
    { [file |-> f, p |-> Val(PressureOf(f)), rows |-> CorrectedRows(f)] :
         f \in { g \in Discovered : Passed(g) } }

\* how often the row x is due in the summary of pressure p
ExpectedCount(due, p, x) ==
    Cardinality(UNION { { << d.file, k >> : k \in { j \in 1..Len(d.rows) : d.rows[j] = x } } :
                          d \in { e \in due : e.p = p } })

SummaryRows(p) == IF p \in DOMAIN summary_files THEN summary_files[p] ELSE << >>

Collected == { f \in Discovered : Happened("append", f) }

\* C3 as stated: the pressures with a summary file are exactly the pressures
\* of the successfully processed files, those with an empty cleaned table
\* included.
C3_GroupKeys ==
    (pc = "done" /\ Aggregated) =>
        DOMAIN summary_files = { Val(PressureOf(f)) : f \in Collected }

\* C4 as stated: when no usable corrected row remains after the loop, the run
\* returns with a diagnostic before the aggregation and plot phase and writes
\* no summary file and no plot file.
C4_EmptyAbort ==
    ( /\ LoopOver
      /\ \A k \in 1..Len(all_processed_data) : all_processed_data[k] = << >> )
    => /\ pc = "done"
       /\ Said("no_data", << >>)
       /\ summary_files = << >>
       /\ plot_files = {}

\* C5 as stated: a finished file whose resistance or pressure cannot be
\* extracted has a warning naming it on the console, whatever the setting of
\* the target pressure, and is neither loaded, written nor collected.
C5_MetadataWarned ==
    \A f \in Finished :
       (PressureOf(f) = None \/ ResistanceOf(f) = None) =>
          /\ Said("warn_resistance", f) \/ Said("warn_pressure", f)
          /\ ~Said("footer_filtered", f)
          /\ output_filepath(f) \notin DOMAIN processed_files
          /\ ~Happened("append", f)

\* the file got through the pressure filter: it was announced, loaded,
\* written or collected
Processed(f) ==
    \/ Said("processing", f)
    \/ Said("footer_filtered", f)
    \/ Said("error", f)
    \/ Happened("write_processed", f)
    \/ Happened("append", f)
    \/ output_filepath(f) \in DOMAIN processed_files

\* C6: with a target pressure P, only files whose extracted pressure is P are
\* loaded, written and collected, every collected row is of pressure P, and
\* the only summary file there may be is that of P; without a target
\* pressure the filter excludes no file.
C6_PressureFilter ==
    /\ TARGET_PRESSURE # None =>
          /\ \A f \in Discovered : Processed(f) => PressureOf(f) = TARGET_PRESSURE
          /\ \A k \in 1..Len(all_processed_data) :
                \A j \in 1..Len(all_processed_data[k]) :
                   all_processed_data[k][j].pressure_Pa = Val(TARGET_PRESSURE)
          /\ DOMAIN summary_files \subseteq { Val(TARGET_PRESSURE) }
    /\ TARGET_PRESSURE = None => \A f \in Finished : Said("processing", f)

\* C6 witness: with the target 300 Pa a run over a 300 Pa file and a 500 Pa
\* file has ended with the single summary of 300 Pa and the 500 Pa file
\* untouched
C6_Witness ==
    /\ pc = "done"
    /\ TARGET_PRESSURE = Some(300)
    /\ DOMAIN summary_files = {300}
    /\ \E f, g \in Discovered :
          /\ PressureOf(f) = Some(300) /\ Happened("append", f)
          /\ PressureOf(g) = Some(500) /\ ~Processed(g)

\* C8 as stated: whenever a file is being loaded, corrected, written or
\* collected, the resistance that divides voltage_ch2 is a strictly positive
\* integer.
C8_NonZeroDivisor ==
    pc \in {"read", "write", "append"} =>
        /\ resistance_ch2 # None
        /\ Val(resistance_ch2) > 0


\* the events of one kind, in order
EventsOf(e) == SelectSeq(events, LAMBDA ev : ev.e = e)

\* the number of files taken up by the loop before event k
HandledBefore(k) == Cardinality({ j \in 1..(k - 1) : events[j].e = "handle" })

\* the file the loop is at when event k happens
FileAt(k) == events[Max({ j \in 1..(k - 1) : events[j].e = "handle" })].file

\* C10: the files are taken up one at a time in discovery order, each once;
\* the per-file CSV of a file is written before its table is collected, so
\* every collected file has its per-file output; no summary file and no plot
\* is written before every discovered file was processed, skipped or failed;
\* all summary files are written before the plot.
C10_PhaseOrdering ==
    /\ Len(EventsOf("handle")) <= Len(csv_files)
    /\ \A k \in 1..Len(EventsOf("handle")) : EventsOf("handle")[k].file = csv_files[k]
    /\ LoopOver => Len(EventsOf("handle")) = Len(csv_files)
    /\ \A k \in 1..Len(events) :
          /\ events[k].e \in {"write_processed", "append"} =>
                /\ HandledBefore(k) >= 1
                /\ FileAt(k) = events[k].file
                /\ \A j \in 1..Len(events) :
                      (events[j].e = events[k].e /\ events[j].file = events[k].file) => j = k
          /\ events[k].e = "append" =>
                \E j \in 1..(k - 1) :
                   events[j].e = "write_processed" /\ events[j].file = events[k].file
          /\ events[k].e \in {"concat", "write_summary", "write_plot"} =>
                /\ HandledBefore(k) = Len(csv_files)
                /\ \A j \in (k + 1)..Len(events) :
                      events[j].e \notin {"handle", "write_processed", "append"}
          /\ events[k].e = "write_plot" =>
                \A j \in (k + 1)..Len(events) : events[j].e # "write_summary"
    /\ \A f \in Collected : output_filepath(f) \in DOMAIN processed_files
    /\ DOMAIN processed_files =
          { output_filepath(f) : f \in { g \in Discovered : Happened("write_processed", g) } }
    /\ DOMAIN summary_files =
          { events[k].key : k \in { j \in 1..Len(events) : events[j].e = "write_summary" } }
    /\ plot_files # {} <=> \E k \in 1..Len(events) : events[k].e = "write_plot"
    /\ (plot_files # {} /\ final_df # << >>) => summary_files # << >>

\* C10 witness: two files of different pressures were collected in discovery
\* order, both summary files were written and then the plot
C10_Witness ==
    /\ pc = "done"
    /\ Len(EventsOf("append")) = 2
    /\ Len(EventsOf("write_summary")) = 2
    /\ Len(EventsOf("write_plot")) = 1

-----------------------------------------------------------------------------
(* Properties of the cleaning steps (checked under SpecClean) *)

\* the text has the shape HH:MM:SS: two digits, a colon, two digits, a colon,
\* two digits
IsTimestamp(cell) ==
    /\ ~cell.na
    /\ Len(cell.s) = 8
    /\ \A k \in 1..8 : IF k \in {3, 6} THEN cell.s[k] = ":" ELSE cell.s[k] \in Digits

\* C9 as stated: every row of the cleaned table has a first field of the
\* shape HH:MM:SS and finite numbers in both voltage columns, and the rows
\* are those of the raw table that are timestamp-shaped, in their order,
\* less the rows with a voltage that is no finite number.
C9_CleanedInvariant ==
    c_pc = "cleaned" =>
        /\ \A k \in 1..Len(c_clean) :
              /\ IsTimestamp(c_clean[k].c0)
              /\ c_clean[k].v1.kind = "fin"
              /\ c_clean[k].v2.kind = "fin"
        /\ Len(c_clean) <= Len(SelectSeq(c_raw, LAMBDA r : IsTimestamp(r.c0)))


====
